---------------------------- MODULE Spec2Model ----------------------------
(***************************************************************************)
(* Model of src/app.py: the "Generate Flight Map" handler of the flight    *)
(* sun-position app, with its helpers calculate_heading, get_side_of_plane *)
(* and fetch_flights.                                                      *)
(*                                                                         *)
(* Angles are whole degrees.  Trigonometric values are fixed-point numbers *)
(* (Unit stands for 1.0) with sin and cos exact at the multiples of 90     *)
(* degrees; atan2 is taken to the whole degree, atan2(0, 0) = 0 as in      *)
(* Python.  Epoch timestamps are whole seconds.  A path entry is the three  *)
(* values the track loop unpacks.  The centre, zoom and styling of the map *)
(* are left out: no step of the handler reads them.                        *)
(***************************************************************************)
EXTENDS Integers, Sequences, FiniteSets

VARIABLES
    pc,               \* position of the script run
    arr_iata,         \* sidebar input: arrival airport code
    requests,         \* external HTTP requests issued so far, in order
    flight_status,    \* status code of the flight-list response (0: none yet)
    flights,          \* list returned by fetch_flights
    selected_flight,  \* <<>> for None, <<f>> for the selected flight
    dep_time_epoch,   \* selected_flight['firstSeen'] (0: not set)
    track_status,     \* status code of the track response (0: none yet)
    track_data,       \* response.json().get('path', [])
    i,                \* loop index of the track loop
    markers,          \* airport markers added to the map
    circles,          \* circle markers added to the map, one per sample
    line,             \* points of the PolyLine (<<>>: not drawn)
    messages,         \* st.error / st.warning / st.write calls, in order
    rendered,         \* st_folium was called
    raised,           \* stage whose call raised an exception ("none": none)
    fn_args,          \* arguments of a helper call checked on its own
    fn_result         \* its result

vars == <<pc, arr_iata, requests, flight_status, flights, selected_flight,
          dep_time_epoch, track_status, track_data, i, markers, circles,
          line, messages, rendered, raised, fn_args, fn_result>>

handler_vars == <<pc, arr_iata, requests, flight_status, flights,
                  selected_flight, dep_time_epoch, track_status, track_data,
                  i, markers, circles, line, messages, rendered, raised>>

-----------------------------------------------------------------------------
(* Bounds of the model *)

MaxFlights == 3
MaxPath == 3

(* Numbers of the program *)

FullCircle == 360
HalfCircle == 180
FirstHeading == 90
HttpOk == 200

-----------------------------------------------------------------------------
(* math.sin / math.cos / math.radians / math.atan2 / math.degrees *)

SinTable ==
  << 0, 175, 349, 523, 698, 872, 1045, 1219, 1392, 1564,
     1736, 1908, 2079, 2250, 2419, 2588, 2756, 2924, 3090, 3256,
     3420, 3584, 3746, 3907, 4067, 4226, 4384, 4540, 4695, 4848,
     5000, 5150, 5299, 5446, 5592, 5736, 5878, 6018, 6157, 6293,
     6428, 6561, 6691, 6820, 6947, 7071, 7193, 7314, 7431, 7547,
     7660, 7771, 7880, 7986, 8090, 8192, 8290, 8387, 8480, 8572,
     8660, 8746, 8829, 8910, 8988, 9063, 9135, 9205, 9272, 9336,
     9397, 9455, 9511, 9563, 9613, 9659, 9703, 9744, 9781, 9816,
     9848, 9877, 9903, 9925, 9945, 9962, 9976, 9986, 9994, 9998,
     10000 >>

\* 1.0 in fixed point
Unit == SinTable[Len(SinTable)]

\* sin(radians(a)) for a whole number of degrees a
SinDeg(a) ==
  LET r == a % FullCircle
  IN  IF r <= 90 THEN SinTable[r + 1]
      ELSE IF r <= 180 THEN SinTable[(180 - r) + 1]
      ELSE IF r <= 270 THEN -SinTable[(r - 180) + 1]
      ELSE -SinTable[(360 - r) + 1]

\* cos(radians(a))
CosDeg(a) == SinDeg(a + 90)

\* product of two fixed-point numbers, rounded toward zero
Mul(a, b) ==
  IF a * b >= 0 THEN (a * b) \div Unit ELSE -((-(a * b)) \div Unit)

\* degrees(atan2(a, b)) for a >= 0, b >= 0: the whole degrees in [0, 90]
QuadrantDeg(a, b) ==
  IF a = 0 THEN 0
  ELSE Cardinality({d \in 1..90 : a * CosDeg(d) >= b * SinDeg(d)})

\* degrees(atan2(x, y)), in [-180, 180]
Atan2Deg(x, y) ==
  IF x >= 0
  THEN IF y >= 0 THEN QuadrantDeg(x, y) ELSE 180 - QuadrantDeg(x, -y)
  ELSE IF y >= 0 THEN -QuadrantDeg(-x, y) ELSE QuadrantDeg(-x, -y) - 180

-----------------------------------------------------------------------------
(* Helper functions of the program *)

\* a calculate_heading that returns the raw bearing
calculate_heading_raw(lat1, lon1, lat2, lon2) ==
  LET dlon == lon2 - lon1
      x == Mul(SinDeg(dlon), CosDeg(lat2))
      y == Mul(CosDeg(lat1), SinDeg(lat2))
             - Mul(Mul(SinDeg(lat1), CosDeg(lat2)), CosDeg(dlon))
  IN  Atan2Deg(x, y)

calculate_heading(lat1, lon1, lat2, lon2) ==
  LET dlon == lon2 - lon1
      x == Mul(SinDeg(dlon), CosDeg(lat2))
      y == Mul(CosDeg(lat1), SinDeg(lat2))
             - Mul(Mul(SinDeg(lat1), CosDeg(lat2)), CosDeg(dlon))
      bearing == Atan2Deg(x, y)
  IN  (bearing + FullCircle) % FullCircle

\* a get_side_of_plane that puts the boundary on the left
get_side_of_plane_ge(azimuth_deg, heading_deg) ==
  LET diff == (azimuth_deg - heading_deg + FullCircle) % FullCircle
  IN  IF diff >= HalfCircle THEN "left" ELSE "right"

get_side_of_plane(azimuth_deg, heading_deg) ==
  LET diff == (azimuth_deg - heading_deg + FullCircle) % FullCircle
  IN  IF diff > HalfCircle THEN "left" ELSE "right"

-----------------------------------------------------------------------------
(* Data the external services can return *)

\* sidebar input for the arrival airport
ArrCodes == {"JFK", "LHR"}

\* status codes of a response
StatusCodes == {HttpOk, 404}

\* flights of the flight-list response; estArrivalAirport "None" stands for
\* a flight without that key (f.get returns None)
FlightPool ==
  { [icao24 |-> "a1", estArrivalAirport |-> "JFK",  firstSeen |-> 60,
     lastSeen |-> 120],
    [icao24 |-> "b2", estArrivalAirport |-> "JFK",  firstSeen |-> 30,
     lastSeen |-> 125],
    [icao24 |-> "c3", estArrivalAirport |-> "None", firstSeen |-> 60,
     lastSeen |-> 120] }

\* entries [lat, lon, ts] of the track's path, as the loop unpacks them
PathPool == { <<0, 0, 60>>, <<0, 90, 120>>, <<10, 0, 30>> }

\* results (altitude, azimuth) of get_altitude / get_azimuth
SolarPositions == { <<30, 100>>, <<-10, 300>> }

SeqsUpTo(S, n) == UNION { [1..k -> S] : k \in 0..n }

FlightLists == SeqsUpTo(FlightPool, MaxFlights)

Paths == SeqsUpTo(PathPool, MaxPath)

-----------------------------------------------------------------------------
(* Messages *)

Error(text) == [kind |-> "error", text |-> text]

Warning(text) == [kind |-> "warning", text |-> text]

Write(text) == [kind |-> "write", text |-> text]

-----------------------------------------------------------------------------
(* The handler *)

\* fetch_flights: the list it returns for a response
fetch_flights(status, body) == IF status = HttpOk THEN body ELSE <<>>

\* a search that keeps the last matching flight (no break)
RECURSIVE SelectLastFlight(_, _)
SelectLastFlight(fs, arr) ==
  IF fs = <<>> THEN <<>>
  ELSE LET rest == SelectLastFlight(Tail(fs), arr)
       IN  IF rest # <<>> THEN rest
           ELSE IF Head(fs).estArrivalAirport = arr THEN <<Head(fs)>>
           ELSE <<>>

\* a search that takes the first flight whatever its arrival airport
SelectAnyFlight(fs, arr) == IF fs = <<>> THEN <<>> ELSE <<Head(fs)>>

\* the search loop for selected_flight: <<>> is None
RECURSIVE SelectFlight(_, _)
SelectFlight(fs, arr) ==
  IF fs = <<>> THEN <<>>
  ELSE IF Head(fs).estArrivalAirport = arr THEN <<Head(fs)>>
  ELSE SelectFlight(Tail(fs), arr)

\* an exception handler that swallows the exception and carries on
ExceptionSwallowed(stage) == stage

\* where the script run goes when a call raises: there is no try/except,
\* the exception leaves the script
ExceptionOutcome(stage) == "raised"

\* a failed request that is tried again
FailedRequestRetried(stage) == stage

\* where the script run goes after a response with a status other than 200
FailedRequestOutcome(stage) == "done"

\* the arrival marker put on the first point
ArrivalPointFirst(path) == <<path[1][1], path[1][2]>>

\* location of the departure marker
DeparturePoint(path) == <<path[1][1], path[1][2]>>

\* location of the arrival marker: track_data[-1]
ArrivalPoint(path) == <<path[Len(path)][1], path[Len(path)][2]>>

\* a loop heading computed from the first point of the path
SampleHeadingFromStart(path, idx) ==
  IF idx > 0
  THEN calculate_heading(path[1][1], path[1][2],
                         path[idx + 1][1], path[idx + 1][2])
  ELSE FirstHeading

\* heading of the sample at (0-based) index idx
SampleHeading(path, idx) ==
  IF idx > 0
  THEN calculate_heading(path[idx][1], path[idx][2],
                         path[idx + 1][1], path[idx + 1][2])
  ELSE FirstHeading

\* a loop over range(len(track_data) - 1)
LoopFinishedEarly(path, idx) == idx >= Len(path) - 1

\* range(len(track_data)) is exhausted
LoopFinished(path, idx) == idx >= Len(path)

\* current_time of the sample at index idx: the instant ts of its entry
SampleTime(path, idx) == path[idx + 1][3]

PressGenerate ==
  /\ pc = "idle"
  /\ pc' = "fetch_flights"
  /\ UNCHANGED <<arr_iata, requests, flight_status, flights, selected_flight,
                 dep_time_epoch, track_status, track_data, i, markers,
                 circles, line, messages, rendered, raised, fn_args,
                 fn_result>>

\* fetch_flights returns, then the selection of the flight
FetchFlights ==
  /\ pc = "fetch_flights"
  /\ \E status \in StatusCodes, body \in FlightLists :
       /\ status # HttpOk => body = <<>>
       /\ requests' = Append(requests, "flights")
       /\ flight_status' = status
       /\ LET fl == fetch_flights(status, body)
              errs == IF status = HttpOk THEN <<>>
                      ELSE <<Error("OpenSky API Error")>>
              sel == SelectFlight(fl, arr_iata)
          IN  /\ flights' = fl
              /\ IF status # HttpOk
                 THEN /\ pc' = FailedRequestOutcome("fetch_flights")
                      /\ messages' = messages \o errs \o
                           <<Warning("No flights found for this date.")>>
                      /\ UNCHANGED <<selected_flight, dep_time_epoch>>
                 ELSE IF fl = <<>>
                 THEN /\ pc' = "done"
                      /\ messages' = messages \o
                           <<Warning("No flights found for this date.")>>
                      /\ UNCHANGED <<selected_flight, dep_time_epoch>>
                 ELSE IF sel = <<>>
                 THEN /\ pc' = "done"
                      /\ selected_flight' = sel
                      /\ messages' = Append(messages, Warning(
                           "No flights found from this departure to arrival airport."))
                      /\ UNCHANGED dep_time_epoch
                 ELSE /\ pc' = "fetch_track"
                      /\ selected_flight' = sel
                      /\ dep_time_epoch' = sel[1].firstSeen
                      /\ messages' = Append(messages, Write(sel[1].icao24))
  /\ UNCHANGED <<arr_iata, track_status, track_data, i, markers, circles,
                 line, rendered, raised, fn_args, fn_result>>

\* fetch_flights raises: the date does not parse (nothing is sent) or the
\* request itself fails
FetchFlightsRaises ==
  /\ pc = "fetch_flights"
  /\ \E sent \in BOOLEAN :
       requests' = IF sent THEN Append(requests, "flights") ELSE requests
  /\ raised' = "fetch_flights"
  /\ pc' = ExceptionOutcome("fetch_flights")
  /\ UNCHANGED <<arr_iata, flight_status, flights, selected_flight,
                 dep_time_epoch, track_status, track_data, i, markers,
                 circles, line, messages, rendered, fn_args, fn_result>>

\* the track request returns, then the map and the airport markers
FetchTrack ==
  /\ pc = "fetch_track"
  /\ \E status \in StatusCodes, path \in Paths :
       /\ status # HttpOk => path = <<>>
       /\ requests' = Append(requests, "tracks")
       /\ track_status' = status
       /\ IF status # HttpOk
          THEN /\ pc' = FailedRequestOutcome("fetch_track")
               /\ messages' = Append(messages,
                                     Error("Failed to fetch flight track."))
               /\ UNCHANGED <<track_data, markers, i>>
          ELSE IF path = <<>>
          THEN /\ pc' = "done"
               /\ track_data' = path
               /\ messages' = Append(messages,
                                     Warning("No track data available."))
               /\ UNCHANGED <<markers, i>>
          ELSE /\ pc' = "track_loop"
               /\ track_data' = path
               /\ markers' =
                    << [location |-> DeparturePoint(path), popup |-> "Departure"],
                       [location |-> ArrivalPoint(path), popup |-> "Arrival"] >>
               /\ i' = 0
               /\ UNCHANGED messages
  /\ UNCHANGED <<arr_iata, flight_status, flights, selected_flight,
                 dep_time_epoch, circles, line, rendered, raised, fn_args,
                 fn_result>>

\* the track request raises
FetchTrackRaises ==
  /\ pc = "fetch_track"
  /\ requests' = Append(requests, "tracks")
  /\ raised' = "fetch_track"
  /\ pc' = ExceptionOutcome("fetch_track")
  /\ UNCHANGED <<arr_iata, flight_status, flights, selected_flight,
                 dep_time_epoch, track_status, track_data, i, markers,
                 circles, line, messages, rendered, fn_args, fn_result>>

\* one pass of the track loop
TrackSample ==
  /\ pc = "track_loop"
  /\ ~LoopFinished(track_data, i)
  /\ \E pos \in SolarPositions :
       LET lat == track_data[i + 1][1]
           lon == track_data[i + 1][2]
           current_time == SampleTime(track_data, i)
           heading == SampleHeading(track_data, i)
           alt == pos[1]
           azi == pos[2]
           side == get_side_of_plane(azi, heading)
       IN  circles' = Append(circles,
             [index |-> i, lat |-> lat, lon |-> lon, time |-> current_time,
              minute |-> current_time \div 60, heading |-> heading,
              alt |-> alt, azi |-> azi, side |-> side,
              color |-> IF alt > 0 THEN "orange" ELSE "gray"])
  /\ i' = i + 1
  /\ UNCHANGED <<pc, arr_iata, requests, flight_status, flights,
                 selected_flight, dep_time_epoch, track_status, track_data,
                 markers, line, messages, rendered, raised, fn_args,
                 fn_result>>

\* get_altitude or get_azimuth raises for the sample at index i
TrackSampleRaises ==
  /\ pc = "track_loop"
  /\ ~LoopFinished(track_data, i)
  /\ raised' = "track_loop"
  /\ pc' = ExceptionOutcome("track_loop")
  /\ UNCHANGED <<arr_iata, requests, flight_status, flights, selected_flight,
                 dep_time_epoch, track_status, track_data, i, markers,
                 circles, line, messages, rendered, fn_args, fn_result>>

\* the flight line and st_folium
Render ==
  /\ pc = "track_loop"
  /\ LoopFinished(track_data, i)
  /\ line' = [k \in 1..Len(track_data) |->
                <<track_data[k][1], track_data[k][2]>>]
  /\ rendered' = TRUE
  /\ pc' = "done"
  /\ UNCHANGED <<arr_iata, requests, flight_status, flights, selected_flight,
                 dep_time_epoch, track_status, track_data, i, markers,
                 circles, messages, raised, fn_args, fn_result>>

\* the state before the button is pressed
InitHandler ==
  /\ pc = "idle"
  /\ arr_iata \in ArrCodes
  /\ requests = <<>>
  /\ flight_status = 0
  /\ flights = <<>>
  /\ selected_flight = <<>>
  /\ dep_time_epoch = 0
  /\ track_status = 0
  /\ track_data = <<>>
  /\ i = 0
  /\ markers = <<>>
  /\ circles = <<>>
  /\ line = <<>>
  /\ messages = <<>>
  /\ rendered = FALSE
  /\ raised = "none"

Init ==
  /\ InitHandler
  /\ fn_args = <<>>
  /\ fn_result = <<>>

Next ==
  \/ PressGenerate
  \/ FetchFlights
  \/ FetchFlightsRaises
  \/ FetchTrack
  \/ FetchTrackRaises
  \/ TrackSample
  \/ TrackSampleRaises
  \/ Render

Spec == Init /\ [][Next]_vars

-----------------------------------------------------------------------------
(* The helpers on their own: every call with arguments of a bounded set *)

\* headings and azimuths in [0, 360)
Degrees == 0..(FullCircle - 1)

\* latitudes in [-90, 90] and longitudes in [-180, 180]
LatGrid == {-90, -60, -45, -10, 0, 10, 41, 45, 90}

LonGrid == {-180, -90, -74, 0, 29, 90, 179, 180}

InitSide ==
  /\ InitHandler
  /\ arr_iata = "JFK"
  /\ fn_args \in Degrees \X Degrees
  /\ fn_result = <<>>

\* side = get_side_of_plane(azi, heading)
CallSide ==
  /\ fn_result = <<>>
  /\ fn_result' = <<get_side_of_plane(fn_args[1], fn_args[2])>>
  /\ UNCHANGED <<handler_vars, fn_args>>

NextSide == CallSide

SpecSide == InitSide /\ [][NextSide]_vars

InitHeading ==
  /\ InitHandler
  /\ arr_iata = "JFK"
  /\ fn_args \in LatGrid \X LonGrid \X LatGrid \X LonGrid
  /\ fn_result = <<>>

\* heading = calculate_heading(lat1, lon1, lat2, lon2)
CallHeading ==
  /\ fn_result = <<>>
  /\ fn_result' = <<calculate_heading(fn_args[1], fn_args[2],
                                      fn_args[3], fn_args[4])>>
  /\ UNCHANGED <<handler_vars, fn_args>>

NextHeading == CallHeading

SpecHeading == InitHeading /\ [][NextHeading]_vars

-----------------------------------------------------------------------------
(* C1: for every heading and azimuth in [0, 360), with diff the value of   *)
(* azimuth - heading reduced to [0, 360), get_side_of_plane returns        *)
(* "right" exactly when diff is in [0, 180] and "left" exactly when diff   *)
(* is in (180, 360); (heading 0, azimuth 0), (0, 180) and (350, 10) give   *)
(* "right", (0, 181) gives "left".                                         *)
C1_SideRule ==
  fn_result # <<>> =>
    LET azi == fn_args[1]
        heading == fn_args[2]
        diff == IF azi >= heading THEN azi - heading
                ELSE azi - heading + 360
        side == fn_result[1]
    IN  /\ side \in {"left", "right"}
        /\ side = "right" <=> (0 <= diff /\ diff <= 180)
        /\ side = "left" <=> (180 < diff /\ diff < 360)
        /\ (heading = 0 /\ azi = 0) => side = "right"
        /\ (heading = 0 /\ azi = 180) => side = "right"
        /\ (heading = 0 /\ azi = 181) => side = "left"
        /\ (heading = 350 /\ azi = 10) => side = "right"

\* the wrap-around call has returned
C1_Witness ==
  fn_args = <<10, 350>> /\ fn_result = <<"right">>

(* C5: calculate_heading returns a value in [0, 360), never negative and   *)
(* never 360; from (0,0) to (0,90) it returns 90 and from (0,0) to (10,0)  *)
(* it returns 0.                                                           *)
C5_HeadingRange ==
  fn_result # <<>> =>
    /\ 0 <= fn_result[1] /\ fn_result[1] < 360
    /\ fn_args = <<0, 0, 0, 90>> => fn_result[1] = 90
    /\ fn_args = <<0, 0, 10, 0>> => fn_result[1] = 0

\* a westward call, whose bearing before the reduction is negative
C5_Witness ==
  fn_args = <<0, 90, 0, 0>> /\ fn_result = <<270>>

-----------------------------------------------------------------------------
(* Notions the claims about the handler use *)

NoRouteWarning ==
  Warning("No flights found from this departure to arrival airport.")

Matches(f) == f.estArrivalAirport = arr_iata

Issued(api) == Cardinality({k \in DOMAIN requests : requests[k] = api})

Shown(msg) == \E k \in DOMAIN messages : messages[k] = msg

HasAlert == \E k \in DOMAIN messages : messages[k].kind \in {"warning", "error"}

\* the four conditions under which the map is rendered
AllFour ==
  /\ flights # <<>>
  /\ \E k \in DOMAIN flights : Matches(flights[k])
  /\ track_status = HttpOk
  /\ track_data # <<>>

(* C2: in the track loop the sample at index 0 gets the fixed heading 90,  *)
(* every sample at index k > 0 gets calculate_heading from the point of    *)
(* sample k-1 to the point of sample k, and that heading is the one given  *)
(* to get_side_of_plane for the sample.                                    *)
C2_LoopHeading ==
  \A k \in DOMAIN circles :
    LET c == circles[k]
    IN  /\ <<c.lat, c.lon>> = <<track_data[k][1], track_data[k][2]>>
        /\ k = 1 => (c.index = 0 /\ c.heading = 90)
        /\ k > 1 => c.heading = calculate_heading(circles[k - 1].lat,
                                                  circles[k - 1].lon,
                                                  c.lat, c.lon)
        /\ c.side = get_side_of_plane(c.azi, c.heading)

\* three samples over (0,0), (0,90), (10,0): the third heading is that of
\* the leg from the second point, not from the first
C2_Witness ==
  /\ Len(circles) = 3
  /\ <<circles[1].heading, circles[2].heading, circles[3].heading>>
       = <<90, 90, 280>>
  /\ calculate_heading(circles[1].lat, circles[1].lon,
                       circles[3].lat, circles[3].lon) = 0

(* C3: when the solar-position lookup raises for a sample, the run ends    *)
(* there with that exception: the flight line is not drawn, st_folium is   *)
(* not called and no further step is taken, however many samples were      *)
(* made before.                                                            *)
C3_SolarFailureAborts ==
  raised = "track_loop" =>
    /\ pc = "raised"
    /\ ~rendered
    /\ line = <<>>
    /\ ~ENABLED Next

\* the lookup raised for the third sample, after two samples were made
C3_Witness ==
  raised = "track_loop" /\ Len(circles) = 2 /\ i = 2

(* C4: the timestamps of the samples of a rendered map are non-decreasing  *)
(* in the sample index, the first equals the departure instant             *)
(* (dep_time_epoch, the flight's firstSeen) and the last equals the        *)
(* arrival instant (the flight's lastSeen).                                *)
C4_MonotonicTimes ==
  rendered =>
    /\ \A k, l \in DOMAIN circles :
         k <= l => circles[k].time <= circles[l].time
    /\ circles[1].time = dep_time_epoch
    /\ circles[Len(circles)].time = selected_flight[1].lastSeen

(* C6: each external request is issued at most once in a run, and a        *)
(* response with a status other than 200 ends the run: no second attempt,  *)
(* no later request, no map.                                               *)
C6_NoRetry ==
  /\ Issued("flights") <= 1
  /\ Issued("tracks") <= 1
  /\ flight_status \notin {0, HttpOk} =>
       (pc = "done" /\ requests = <<"flights">> /\ ~rendered)
  /\ track_status \notin {0, HttpOk} =>
       (pc = "done" /\ requests = <<"flights", "tracks">> /\ ~rendered
          /\ circles = <<>>)

\* the track request failed after a successful flight-list request
C6_Witness ==
  flight_status = HttpOk /\ track_status = 404 /\ pc = "done"

(* C7: the samples are made in index order 0, 1, ..., one per path point,  *)
(* none skipped or repeated, and the map is rendered only after the sample *)
(* of the last point was made.                                             *)
C7_SamplesInOrder ==
  /\ Len(circles) <= Len(track_data)
  /\ \A k \in DOMAIN circles :
       /\ circles[k].index = k - 1
       /\ <<circles[k].lat, circles[k].lon, circles[k].time>> = track_data[k]
  /\ i = Len(circles)
  /\ rendered => (Len(circles) = Len(track_data) /\ Len(track_data) >= 1)
  /\ line # <<>> => rendered

\* a map rendered for a path of three points
C7_Witness ==
  rendered /\ Len(track_data) = 3 /\ Len(circles) = 3

C9_RenderGuards ==
  /\ rendered => AllFour
  /\ (pc \in {"done", "raised"} /\ ~AllFour) =>
       /\ ~rendered
       /\ HasAlert \/ raised # "none"
  /\ pc = "done" /\ ~rendered => HasAlert
  /\ ~AllFour => (markers = <<>> /\ circles = <<>> /\ line = <<>>)
  /\ Issued("tracks") > 0 =>
       /\ selected_flight # <<>>
       /\ Matches(selected_flight[1])
       /\ \E k \in DOMAIN flights : flights[k] = selected_flight[1]
  /\ (flights = <<>> \/ ~\E k \in DOMAIN flights : Matches(flights[k])) =>
       Issued("tracks") = 0

\* a run that ended at the empty-path warning, after both requests
\* succeeded
C9_Witness ==
  /\ pc = "done"
  /\ ~rendered
  /\ track_status = HttpOk
  /\ track_data = <<>>
  /\ Shown(Warning("No track data available."))

(* C10: once the selection has run on a non-empty list, selected_flight is *)
(* the first flight of the list, in list order, whose estArrivalAirport is *)
(* the arrival code: no earlier flight matches and later matching flights  *)
(* are ignored.  When no flight matches, selected_flight is None and the   *)
(* no-route warning is shown.                                              *)
C10_FirstMatch ==
  (flights # <<>> /\ pc \notin {"idle", "fetch_flights"}) =>
    IF \E k \in DOMAIN flights : Matches(flights[k])
    THEN LET first == CHOOSE k \in DOMAIN flights :
                        /\ Matches(flights[k])
                        /\ \A j \in 1..(k - 1) : ~Matches(flights[j])
         IN  /\ selected_flight = <<flights[first]>>
             /\ dep_time_epoch = flights[first].firstSeen
             /\ ~Shown(NoRouteWarning)
    ELSE /\ selected_flight = <<>>
         /\ Shown(NoRouteWarning)
         /\ pc = "done"

\* the second of three flights is selected: the first does not match, the
\* third matches too
C10_Witness ==
  /\ Len(flights) = 3
  /\ ~Matches(flights[1])
  /\ Matches(flights[2])
  /\ Matches(flights[3])
  /\ flights[2] # flights[3]
  /\ selected_flight = <<flights[2]>>

=============================================================================
